---- MODULE Spec2Model ----
(***************************************************************************)
(* Hotel reservation system (reservation_system.py): three JSON files      *)
(* (hotels.json, customers.json, reservations.json), each a dictionary     *)
(* from a string key to a flat record, and the class methods of Hotel,     *)
(* Customer and Reservation, each a load -> mutate -> save cycle.          *)
(***************************************************************************)
EXTENDS Integers, Sequences, FiniteSets, TLC

(***************************************************************************)
(* Bounds of the model.                                                    *)
(***************************************************************************)
\* Room counts passed by callers are -MaxNegRooms..MaxRooms, and no call is
\* followed that would leave a stored room count above MaxRooms (cancel_room
\* has no upper limit of its own).
MaxRooms == 1
MaxNegRooms == 1

(***************************************************************************)
(* Python values: integers, strings and None, told apart by a tag.         *)
(***************************************************************************)
PyInt(n) == [t |-> "int", v |-> n]
PyStr(s) == [t |-> "str", s |-> s]
PyNone == [t |-> "None"]

Digits == <<"0", "1", "2", "3", "4", "5", "6", "7", "8", "9">>

RECURSIVE NatStr(_)
NatStr(n) == IF n < 10 THEN Digits[n + 1]
             ELSE NatStr(n \div 10) \o Digits[(n % 10) + 1]

\* str(x) of Python for the three kinds of value.
str(x) == IF x.t = "int" THEN (IF x.v < 0 THEN "-" \o NatStr(-x.v) ELSE NatStr(x.v))
          ELSE IF x.t = "str" THEN x.s
          ELSE "None"

(***************************************************************************)
(* Dictionaries are functions from string keys.                            *)
(***************************************************************************)
EmptyDict == [k \in {} |-> PyNone]
DictSet(d, k, val) == [x \in DOMAIN d \cup {k} |-> IF x = k THEN val ELSE d[x]]
DictDel(d, k) == [x \in DOMAIN d \ {k} |-> d[x]]

(***************************************************************************)
(* The persistence adapter.  A file is absent, holds a JSON dictionary,    *)
(* holds text that json.load rejects (JSONDecodeError), or holds bytes that*)
(* are not UTF-8, which the read inside json.load rejects with             *)
(* UnicodeDecodeError before any parsing.                                  *)
(***************************************************************************)
Hotel_FILE_NAME == "hotels.json"
Customer_FILE_NAME == "customers.json"
Reservation_FILE_NAME == "reservations.json"
FileNames == {Hotel_FILE_NAME, Customer_FILE_NAME, Reservation_FILE_NAME}

AbsentFile == [kind |-> "absent", data |-> EmptyDict]
JsonFile(d) == [kind |-> "json", data |-> d]
GarbageFile == [kind |-> "garbage", data |-> EmptyDict]
UndecodableFile == [kind |-> "undecodable", data |-> EmptyDict]

load_data(fs, filename) ==
    IF fs[filename].kind = "absent" THEN EmptyDict
    ELSE IF fs[filename].kind = "json" THEN fs[filename].data
    ELSE EmptyDict

save_data(fs, filename, data) == [fs EXCEPT ![filename] = JsonFile(data)]

\* load_data catches json.JSONDecodeError alone: UnicodeDecodeError leaves it.
load_raises(fs, filename) == fs[filename].kind = "undecodable"

\* The result of a method: the files it leaves and the value it returns, or
\* the exception that leaves it.
Result(fs, ret) == [fs |-> fs, ret |-> ret, exc |-> "none"]
Raise(fs, exc) == [fs |-> fs, ret |-> PyNone, exc |-> exc]

(***************************************************************************)
(* class Hotel                                                             *)
(***************************************************************************)
\* Mutant: the duplicate test looks up hotel_id itself, not str(hotel_id); an
\* integer is never a key of a dictionary read from JSON.
Hotel_create_hotel_RawKeyCheck(fs, hotel_id, name, location, rooms) ==
    IF load_raises(fs, Hotel_FILE_NAME) THEN Raise(fs, "UnicodeDecodeError") ELSE
    LET data == load_data(fs, Hotel_FILE_NAME) IN
    IF hotel_id.t = "str" /\ hotel_id.s \in DOMAIN data THEN Result(fs, FALSE)
    ELSE Result(save_data(fs, Hotel_FILE_NAME,
                          DictSet(data, str(hotel_id),
                                  [name |-> name, location |-> location,
                                   rooms |-> rooms])),
                TRUE)

Hotel_create_hotel(fs, hotel_id, name, location, rooms) ==
    IF load_raises(fs, Hotel_FILE_NAME) THEN Raise(fs, "UnicodeDecodeError") ELSE
    LET data == load_data(fs, Hotel_FILE_NAME) IN
    IF str(hotel_id) \in DOMAIN data THEN Result(fs, FALSE)
    ELSE Result(save_data(fs, Hotel_FILE_NAME,
                          DictSet(data, str(hotel_id),
                                  [name |-> name, location |-> location,
                                   rooms |-> rooms])),
                TRUE)

\* Mutant: the record is deleted from the loaded copy and never saved.
Hotel_delete_hotel_NoSave(fs, hotel_id) ==
    IF load_raises(fs, Hotel_FILE_NAME) THEN Raise(fs, "UnicodeDecodeError") ELSE
    LET data == load_data(fs, Hotel_FILE_NAME) IN
    IF str(hotel_id) \in DOMAIN data THEN Result(fs, TRUE) ELSE Result(fs, FALSE)

\* Mutant: deleting a hotel also deletes the reservations that refer to it.
Hotel_delete_hotel_Cascade(fs, hotel_id) ==
    IF load_raises(fs, Hotel_FILE_NAME) THEN Raise(fs, "UnicodeDecodeError") ELSE
    LET data == load_data(fs, Hotel_FILE_NAME)
        res_data == load_data(fs, Reservation_FILE_NAME)
        kept == {r \in DOMAIN res_data : res_data[r].hotel_id.s # str(hotel_id)}
    IN
    IF str(hotel_id) \in DOMAIN data
    THEN Result(save_data(save_data(fs, Hotel_FILE_NAME, DictDel(data, str(hotel_id))),
                          Reservation_FILE_NAME, [r \in kept |-> res_data[r]]),
                TRUE)
    ELSE Result(fs, FALSE)

Hotel_delete_hotel(fs, hotel_id) ==
    IF load_raises(fs, Hotel_FILE_NAME) THEN Raise(fs, "UnicodeDecodeError") ELSE
    LET data == load_data(fs, Hotel_FILE_NAME) IN
    IF str(hotel_id) \in DOMAIN data
    THEN Result(save_data(fs, Hotel_FILE_NAME, DictDel(data, str(hotel_id))), TRUE)
    ELSE Result(fs, FALSE)

\* dict.get(key): the value, or None.
DictGet(d, k) == IF k \in DOMAIN d THEN d[k] ELSE PyNone

\* Truth value of `if x:` for a stored record (a dictionary) or None.
Truthy(x) == IF "t" \in DOMAIN x THEN x.t # "None" ELSE DOMAIN x # {}

\* Mutant: the record is looked up under hotel_id itself, not str(hotel_id).
Hotel_display_hotel_RawKey(fs, hotel_id) ==
    IF load_raises(fs, Hotel_FILE_NAME) THEN Raise(fs, "UnicodeDecodeError") ELSE
    LET data == load_data(fs, Hotel_FILE_NAME)
        hotel == IF hotel_id.t = "str" THEN DictGet(data, hotel_id.s) ELSE PyNone
    IN IF Truthy(hotel) THEN Result(fs, hotel) ELSE Result(fs, PyNone)

Hotel_display_hotel(fs, hotel_id) ==
    IF load_raises(fs, Hotel_FILE_NAME) THEN Raise(fs, "UnicodeDecodeError") ELSE
    LET data == load_data(fs, Hotel_FILE_NAME)
        hotel == DictGet(data, str(hotel_id))
    IN IF Truthy(hotel) THEN Result(fs, hotel) ELSE Result(fs, PyNone)

\* Mutant: the location is written under the key "name".
Hotel_modify_hotel_LocationIntoName(fs, hotel_id, name, location, rooms) ==
    IF load_raises(fs, Hotel_FILE_NAME) THEN Raise(fs, "UnicodeDecodeError") ELSE
    LET data == load_data(fs, Hotel_FILE_NAME)
        k == str(hotel_id)
    IN
    IF k \in DOMAIN data
    THEN LET d1 == IF name.t # "None" THEN [data EXCEPT ![k].name = name] ELSE data
             d2 == IF location.t # "None" THEN [d1 EXCEPT ![k].name = location] ELSE d1
             d3 == IF rooms.t # "None" THEN [d2 EXCEPT ![k].rooms = rooms] ELSE d2
         IN Result(save_data(fs, Hotel_FILE_NAME, d3), TRUE)
    ELSE Result(fs, FALSE)

Hotel_modify_hotel(fs, hotel_id, name, location, rooms) ==
    IF load_raises(fs, Hotel_FILE_NAME) THEN Raise(fs, "UnicodeDecodeError") ELSE
    LET data == load_data(fs, Hotel_FILE_NAME)
        k == str(hotel_id)
    IN
    IF k \in DOMAIN data
    THEN LET d1 == IF name.t # "None" THEN [data EXCEPT ![k].name = name] ELSE data
             d2 == IF location.t # "None" THEN [d1 EXCEPT ![k].location = location] ELSE d1
             d3 == IF rooms.t # "None" THEN [d2 EXCEPT ![k].rooms = rooms] ELSE d2
         IN Result(save_data(fs, Hotel_FILE_NAME, d3), TRUE)
    ELSE Result(fs, FALSE)

\* Mutant: the decrement is made on the loaded copy and never saved.
Hotel_reserve_room_NoSave(fs, hotel_id) ==
    IF load_raises(fs, Hotel_FILE_NAME) THEN Raise(fs, "UnicodeDecodeError") ELSE
    LET data == load_data(fs, Hotel_FILE_NAME)
        k == str(hotel_id)
    IN
    IF k \in DOMAIN data
    THEN IF data[k].rooms.v > 0 THEN Result(fs, TRUE) ELSE Result(fs, FALSE)
    ELSE Result(fs, FALSE)

\* Mutant: the availability test is rooms >= 0.
Hotel_reserve_room_AtLeastZero(fs, hotel_id) ==
    IF load_raises(fs, Hotel_FILE_NAME) THEN Raise(fs, "UnicodeDecodeError") ELSE
    LET data == load_data(fs, Hotel_FILE_NAME)
        k == str(hotel_id)
    IN
    IF k \in DOMAIN data
    THEN IF data[k].rooms.v >= 0
         THEN Result(save_data(fs, Hotel_FILE_NAME,
                               [data EXCEPT ![k].rooms = PyInt(@.v - 1)]),
                     TRUE)
         ELSE Result(fs, FALSE)
    ELSE Result(fs, FALSE)

Hotel_reserve_room(fs, hotel_id) ==
    IF load_raises(fs, Hotel_FILE_NAME) THEN Raise(fs, "UnicodeDecodeError") ELSE
    LET data == load_data(fs, Hotel_FILE_NAME)
        k == str(hotel_id)
    IN
    IF k \in DOMAIN data
    THEN IF data[k].rooms.t # "int" THEN Raise(fs, "TypeError")
         ELSE IF data[k].rooms.v > 0
         THEN Result(save_data(fs, Hotel_FILE_NAME,
                               [data EXCEPT ![k].rooms = PyInt(@.v - 1)]),
                     TRUE)
         ELSE Result(fs, FALSE)
    ELSE Result(fs, FALSE)

\* Mutant: the increment is made on the loaded copy and never saved.
Hotel_cancel_room_NoSave(fs, hotel_id) ==
    IF load_raises(fs, Hotel_FILE_NAME) THEN Raise(fs, "UnicodeDecodeError") ELSE
    LET data == load_data(fs, Hotel_FILE_NAME)
        k == str(hotel_id)
    IN
    IF k \in DOMAIN data THEN Result(fs, TRUE) ELSE Result(fs, FALSE)

Hotel_cancel_room(fs, hotel_id) ==
    IF load_raises(fs, Hotel_FILE_NAME) THEN Raise(fs, "UnicodeDecodeError") ELSE
    LET data == load_data(fs, Hotel_FILE_NAME)
        k == str(hotel_id)
    IN
    IF k \in DOMAIN data
    THEN IF data[k].rooms.t # "int" THEN Raise(fs, "TypeError") ELSE
         Result(save_data(fs, Hotel_FILE_NAME,
                          [data EXCEPT ![k].rooms = PyInt(@.v + 1)]),
                TRUE)
    ELSE Result(fs, FALSE)

(***************************************************************************)
(* class Customer                                                          *)
(***************************************************************************)
Customer_create_customer(fs, customer_id, name, email) ==
    IF load_raises(fs, Customer_FILE_NAME) THEN Raise(fs, "UnicodeDecodeError") ELSE
    LET data == load_data(fs, Customer_FILE_NAME) IN
    IF str(customer_id) \in DOMAIN data THEN Result(fs, FALSE)
    ELSE Result(save_data(fs, Customer_FILE_NAME,
                          DictSet(data, str(customer_id),
                                  [name |-> name, email |-> email])),
                TRUE)

Customer_delete_customer(fs, customer_id) ==
    IF load_raises(fs, Customer_FILE_NAME) THEN Raise(fs, "UnicodeDecodeError") ELSE
    LET data == load_data(fs, Customer_FILE_NAME) IN
    IF str(customer_id) \in DOMAIN data
    THEN Result(save_data(fs, Customer_FILE_NAME, DictDel(data, str(customer_id))),
                TRUE)
    ELSE Result(fs, FALSE)

Customer_display_customer(fs, customer_id) ==
    IF load_raises(fs, Customer_FILE_NAME) THEN Raise(fs, "UnicodeDecodeError") ELSE
    LET data == load_data(fs, Customer_FILE_NAME)
        customer == DictGet(data, str(customer_id))
    IN IF Truthy(customer) THEN Result(fs, customer) ELSE Result(fs, PyNone)

Customer_modify_customer(fs, customer_id, name, email) ==
    IF load_raises(fs, Customer_FILE_NAME) THEN Raise(fs, "UnicodeDecodeError") ELSE
    LET data == load_data(fs, Customer_FILE_NAME)
        k == str(customer_id)
    IN
    IF k \in DOMAIN data
    THEN LET d1 == IF name.t # "None" THEN [data EXCEPT ![k].name = name] ELSE data
             d2 == IF email.t # "None" THEN [d1 EXCEPT ![k].email = email] ELSE d1
         IN Result(save_data(fs, Customer_FILE_NAME, d2), TRUE)
    ELSE Result(fs, FALSE)

(***************************************************************************)
(* class Reservation                                                       *)
(***************************************************************************)
\* Mutant: the room is reserved before the customer is looked up.
Reservation_create_reservation_ReserveFirst(fs, reservation_id, customer_id, hotel_id) ==
    IF \/ load_raises(fs, Customer_FILE_NAME)
       \/ load_raises(fs, Hotel_FILE_NAME)
       \/ load_raises(fs, Reservation_FILE_NAME)
    THEN Raise(fs, "UnicodeDecodeError") ELSE
    LET customer_data == load_data(fs, Customer_FILE_NAME)
        hotel_data == load_data(fs, Hotel_FILE_NAME)
        res_data == load_data(fs, Reservation_FILE_NAME)
    IN
    IF str(reservation_id) \in DOMAIN res_data THEN Result(fs, FALSE)
    ELSE IF str(hotel_id) \notin DOMAIN hotel_data THEN Result(fs, FALSE)
    ELSE LET reserved == Hotel_reserve_room(fs, hotel_id) IN
         IF ~reserved.ret THEN Result(reserved.fs, FALSE)
         ELSE IF str(customer_id) \notin DOMAIN customer_data
         THEN Result(reserved.fs, FALSE)
         ELSE Result(save_data(reserved.fs, Reservation_FILE_NAME,
                               DictSet(res_data, str(reservation_id),
                                       [customer_id |-> PyStr(str(customer_id)),
                                        hotel_id |-> PyStr(str(hotel_id))])),
                     TRUE)

\* Mutant: the record is saved without reserving a room.
Reservation_create_reservation_NoReserve(fs, reservation_id, customer_id, hotel_id) ==
    IF \/ load_raises(fs, Customer_FILE_NAME)
       \/ load_raises(fs, Hotel_FILE_NAME)
       \/ load_raises(fs, Reservation_FILE_NAME)
    THEN Raise(fs, "UnicodeDecodeError") ELSE
    LET customer_data == load_data(fs, Customer_FILE_NAME)
        hotel_data == load_data(fs, Hotel_FILE_NAME)
        res_data == load_data(fs, Reservation_FILE_NAME)
    IN
    IF str(reservation_id) \in DOMAIN res_data THEN Result(fs, FALSE)
    ELSE IF str(customer_id) \notin DOMAIN customer_data THEN Result(fs, FALSE)
    ELSE IF str(hotel_id) \notin DOMAIN hotel_data THEN Result(fs, FALSE)
    ELSE Result(save_data(fs, Reservation_FILE_NAME,
                          DictSet(res_data, str(reservation_id),
                                  [customer_id |-> PyStr(str(customer_id)),
                                   hotel_id |-> PyStr(str(hotel_id))])),
                TRUE)

Reservation_create_reservation(fs, reservation_id, customer_id, hotel_id) ==
    IF \/ load_raises(fs, Customer_FILE_NAME)
       \/ load_raises(fs, Hotel_FILE_NAME)
       \/ load_raises(fs, Reservation_FILE_NAME)
    THEN Raise(fs, "UnicodeDecodeError") ELSE
    LET customer_data == load_data(fs, Customer_FILE_NAME)
        hotel_data == load_data(fs, Hotel_FILE_NAME)
        res_data == load_data(fs, Reservation_FILE_NAME)
    IN
    IF str(reservation_id) \in DOMAIN res_data THEN Result(fs, FALSE)
    ELSE IF str(customer_id) \notin DOMAIN customer_data THEN Result(fs, FALSE)
    ELSE IF str(hotel_id) \notin DOMAIN hotel_data THEN Result(fs, FALSE)
    ELSE LET reserved == Hotel_reserve_room(fs, hotel_id) IN
         IF reserved.exc # "none" THEN reserved
         ELSE IF reserved.ret
         THEN Result(save_data(reserved.fs, Reservation_FILE_NAME,
                               DictSet(res_data, str(reservation_id),
                                       [customer_id |-> PyStr(str(customer_id)),
                                        hotel_id |-> PyStr(str(hotel_id))])),
                     TRUE)
         ELSE Result(reserved.fs, FALSE)

\* Mutant: the room is released but the record is saved undeleted.
Reservation_cancel_reservation_KeepRecord(fs, reservation_id) ==
    IF load_raises(fs, Reservation_FILE_NAME) THEN Raise(fs, "UnicodeDecodeError") ELSE
    LET res_data == load_data(fs, Reservation_FILE_NAME)
        k == str(reservation_id)
    IN
    IF k \in DOMAIN res_data
    THEN LET hotel_id == res_data[k].hotel_id
             cancelled == Hotel_cancel_room(fs, hotel_id)
         IN Result(save_data(cancelled.fs, Reservation_FILE_NAME, res_data), TRUE)
    ELSE Result(fs, FALSE)

\* Mutant: the record is deleted without releasing the room.
Reservation_cancel_reservation_NoCancelRoom(fs, reservation_id) ==
    IF load_raises(fs, Reservation_FILE_NAME) THEN Raise(fs, "UnicodeDecodeError") ELSE
    LET res_data == load_data(fs, Reservation_FILE_NAME)
        k == str(reservation_id)
    IN
    IF k \in DOMAIN res_data
    THEN Result(save_data(fs, Reservation_FILE_NAME, DictDel(res_data, k)), TRUE)
    ELSE Result(fs, FALSE)

\* Mutant: the cancellation is given up when cancel_room finds no hotel.
Reservation_cancel_reservation_AbortOnMissingHotel(fs, reservation_id) ==
    IF load_raises(fs, Reservation_FILE_NAME) THEN Raise(fs, "UnicodeDecodeError") ELSE
    LET res_data == load_data(fs, Reservation_FILE_NAME)
        k == str(reservation_id)
    IN
    IF k \in DOMAIN res_data
    THEN LET hotel_id == res_data[k].hotel_id
             cancelled == Hotel_cancel_room(fs, hotel_id)
         IN IF cancelled.exc # "none" THEN cancelled
            ELSE IF ~cancelled.ret THEN Result(fs, FALSE)
            ELSE Result(save_data(cancelled.fs, Reservation_FILE_NAME,
                                  DictDel(res_data, k)),
                        TRUE)
    ELSE Result(fs, FALSE)

Reservation_cancel_reservation(fs, reservation_id) ==
    IF load_raises(fs, Reservation_FILE_NAME) THEN Raise(fs, "UnicodeDecodeError") ELSE
    LET res_data == load_data(fs, Reservation_FILE_NAME)
        k == str(reservation_id)
    IN
    IF k \in DOMAIN res_data
    THEN LET hotel_id == res_data[k].hotel_id
             cancelled == Hotel_cancel_room(fs, hotel_id)
         IN IF cancelled.exc # "none" THEN cancelled
            ELSE Result(save_data(cancelled.fs, Reservation_FILE_NAME,
                                  DictDel(res_data, k)),
                        TRUE)
    ELSE Result(fs, FALSE)

(***************************************************************************)
(* State: the three files, and the call that has just returned (its name   *)
(* and arguments, its return value or the exception that left it, and the  *)
(* files as they were before it).  origin is a history of the hotel file, *)
(* kept by the specifications that follow create_hotel's arguments: for    *)
(* each stored hotel, the rooms argument of the create_hotel call that     *)
(* stored the record, and whether a reservation referring to that hotel id *)
(* was in the reservation file at that call.  proc holds the calls of      *)
(* create_reservation that run as processes of their own, one store access *)
(* at a time: each one's position, arguments and local variables.          *)
(***************************************************************************)
VARIABLES files, pc, call, ret, exc, pre, origin, proc

vars == <<files, pc, call, ret, exc, pre, origin, proc>>

\* Identifiers callers pass: the integers 1 and 2 and the string "1", which
\* str() maps to the same key as the integer 1.
Ids == {PyInt(1), PyInt(2), PyStr("1")}
\* The identifiers of the key "1" alone.
IdsOfOneKey == {PyInt(1), PyStr("1")}
\* Names, locations and e-mail addresses callers pass.
Texts == {PyStr("A"), PyStr("B")}
OneText == {PyStr("A")}
RoomArgs == {PyInt(n) : n \in (0 - MaxNegRooms)..MaxRooms}
NonNegRoomArgs == {PyInt(n) : n \in 0..MaxRooms}
Optional(S) == S \cup {PyNone}

\* The room counts stored in hotels.json stay within the bound.
WithinBounds(fs) ==
    \A k \in DOMAIN load_data(fs, Hotel_FILE_NAME) :
        load_data(fs, Hotel_FILE_NAME)[k].rooms.t = "int" =>
            load_data(fs, Hotel_FILE_NAME)[k].rooms.v <= MaxRooms

NoCall == [name |-> "none", args |-> <<>>]

\* The processes that may run create_reservation, and one that has not
\* called it yet.
Procs == {"p", "q"}

IdleProc ==
    [pc |-> "idle",
     reservation_id |-> PyNone, customer_id |-> PyNone, hotel_id |-> PyNone,
     customer_data |-> EmptyDict, hotel_data |-> EmptyDict, res_data |-> EmptyDict,
     data |-> EmptyDict, at_read |-> EmptyDict,
     ret |-> PyNone,
     wrote_hotels |-> FALSE, wrote_res |-> FALSE,
     concurrent |-> FALSE, saved |-> 0]

\* The data files do not exist before the first call (the tests' setUp).
Init ==
    /\ files = [f \in FileNames |-> AbsentFile]
    /\ pc = "ready"
    /\ call = NoCall
    /\ ret = PyNone
    /\ exc = "none"
    /\ pre = files
    /\ origin = EmptyDict
    /\ proc = [p \in Procs |-> IdleProc]

\* One call of a method, from its start to its return.
Step(name, args, result) ==
    /\ pc = "ready"
    /\ WithinBounds(result.fs)
    /\ files' = result.fs
    /\ ret' = result.ret
    /\ exc' = result.exc
    /\ call' = [name |-> name, args |-> args]
    /\ pre' = files
    /\ pc' = "returned"
    /\ UNCHANGED proc

Invoke(name, args, result) == Step(name, args, result) /\ UNCHANGED origin

create_hotel(hotel_id, name, location, rooms) ==
    Invoke("create_hotel", <<hotel_id, name, location, rooms>>,
           Hotel_create_hotel(files, hotel_id, name, location, rooms))

delete_hotel(hotel_id) ==
    Invoke("delete_hotel", <<hotel_id>>, Hotel_delete_hotel(files, hotel_id))

display_hotel(hotel_id) ==
    Invoke("display_hotel", <<hotel_id>>, Hotel_display_hotel(files, hotel_id))

modify_hotel(hotel_id, name, location, rooms) ==
    Invoke("modify_hotel", <<hotel_id, name, location, rooms>>,
           Hotel_modify_hotel(files, hotel_id, name, location, rooms))

reserve_room(hotel_id) ==
    Invoke("reserve_room", <<hotel_id>>, Hotel_reserve_room(files, hotel_id))

cancel_room(hotel_id) ==
    Invoke("cancel_room", <<hotel_id>>, Hotel_cancel_room(files, hotel_id))

create_customer(customer_id, name, email) ==
    Invoke("create_customer", <<customer_id, name, email>>,
           Customer_create_customer(files, customer_id, name, email))

delete_customer(customer_id) ==
    Invoke("delete_customer", <<customer_id>>,
           Customer_delete_customer(files, customer_id))

display_customer(customer_id) ==
    Invoke("display_customer", <<customer_id>>,
           Customer_display_customer(files, customer_id))

modify_customer(customer_id, name, email) ==
    Invoke("modify_customer", <<customer_id, name, email>>,
           Customer_modify_customer(files, customer_id, name, email))

create_reservation(reservation_id, customer_id, hotel_id) ==
    Invoke("create_reservation", <<reservation_id, customer_id, hotel_id>>,
           Reservation_create_reservation(files, reservation_id, customer_id, hotel_id))

cancel_reservation(reservation_id) ==
    Invoke("cancel_reservation", <<reservation_id>>,
           Reservation_cancel_reservation(files, reservation_id))

\* The caller is back at its top level and may make the next call.
Return ==
    /\ pc = "returned"
    /\ pc' = "ready"
    /\ call' = NoCall
    /\ ret' = PyNone
    /\ exc' = "none"
    /\ pre' = files
    /\ UNCHANGED <<files, origin, proc>>

\* Every operation, on two keys per file; names, locations and e-mail
\* addresses, which no method reads, take one value.
Next ==
    \/ \E i \in Ids, n \in OneText, l \in OneText, r \in RoomArgs : create_hotel(i, n, l, r)
    \/ \E i \in Ids : delete_hotel(i)
    \/ \E i \in Ids : display_hotel(i)
    \/ \E i \in Ids, n \in Optional(OneText), l \in Optional(OneText),
          r \in Optional(RoomArgs) : modify_hotel(i, n, l, r)
    \/ \E i \in Ids : reserve_room(i)
    \/ \E i \in Ids : cancel_room(i)
    \/ \E i \in Ids, n \in OneText, e \in OneText : create_customer(i, n, e)
    \/ \E i \in Ids : delete_customer(i)
    \/ \E i \in Ids : display_customer(i)
    \/ \E i \in Ids, n \in Optional(OneText), e \in Optional(OneText) :
          modify_customer(i, n, e)
    \/ \E r \in Ids, c \in Ids, h \in Ids : create_reservation(r, c, h)
    \/ \E r \in Ids : cancel_reservation(r)
    \/ Return

Spec == Init /\ [][Next]_vars

\* Every operation, on the one key "1" reached through two different
\* identifiers, with every field taking two values.
NextOneKey ==
    \/ \E i \in IdsOfOneKey, n \in Texts, l \in Texts, r \in RoomArgs :
          create_hotel(i, n, l, r)
    \/ \E i \in IdsOfOneKey : delete_hotel(i)
    \/ \E i \in IdsOfOneKey : display_hotel(i)
    \/ \E i \in IdsOfOneKey, n \in Optional(Texts), l \in Optional(Texts),
          r \in Optional(RoomArgs) : modify_hotel(i, n, l, r)
    \/ \E i \in IdsOfOneKey : reserve_room(i)
    \/ \E i \in IdsOfOneKey : cancel_room(i)
    \/ \E i \in IdsOfOneKey, n \in Texts, e \in Texts : create_customer(i, n, e)
    \/ \E i \in IdsOfOneKey : delete_customer(i)
    \/ \E i \in IdsOfOneKey : display_customer(i)
    \/ \E i \in IdsOfOneKey, n \in Optional(Texts), e \in Optional(Texts) :
          modify_customer(i, n, e)
    \/ \E r \in IdsOfOneKey, c \in IdsOfOneKey, h \in IdsOfOneKey :
          create_reservation(r, c, h)
    \/ \E r \in IdsOfOneKey : cancel_reservation(r)
    \/ Return

SpecOneKey == Init /\ [][NextOneKey]_vars

\* The Hotel and Customer registries on two keys per file, with every text
\* field taking two values and room counts from 0 up.
NextRegistry ==
    \/ \E i \in Ids, n \in Texts, l \in Texts, r \in NonNegRoomArgs : create_hotel(i, n, l, r)
    \/ \E i \in Ids : delete_hotel(i)
    \/ \E i \in Ids : display_hotel(i)
    \/ \E i \in Ids, n \in Optional(Texts), l \in Optional(Texts),
          r \in Optional(NonNegRoomArgs) : modify_hotel(i, n, l, r)
    \/ \E i \in Ids : reserve_room(i)
    \/ \E i \in Ids : cancel_room(i)
    \/ \E i \in Ids, n \in Texts, e \in Texts : create_customer(i, n, e)
    \/ \E i \in Ids : delete_customer(i)
    \/ \E i \in Ids : display_customer(i)
    \/ \E i \in Ids, n \in Optional(Texts), e \in Optional(Texts) : modify_customer(i, n, e)
    \/ Return

SpecRegistry == Init /\ [][NextRegistry]_vars

\* create_hotel and delete_hotel with the history of the hotel file kept.
RefersTo(fs, k) ==
    \E r \in DOMAIN load_data(fs, Reservation_FILE_NAME) :
        load_data(fs, Reservation_FILE_NAME)[r].hotel_id.s = k

tracked_create_hotel(hotel_id, name, location, rooms) ==
    LET result == Hotel_create_hotel(files, hotel_id, name, location, rooms) IN
    /\ Step("create_hotel", <<hotel_id, name, location, rooms>>, result)
    /\ origin' = IF result.exc = "none" /\ result.ret
                  THEN DictSet(origin, str(hotel_id),
                               [rooms |-> rooms, stale |-> RefersTo(files, str(hotel_id))])
                  ELSE origin

tracked_delete_hotel(hotel_id) ==
    LET result == Hotel_delete_hotel(files, hotel_id) IN
    /\ Step("delete_hotel", <<hotel_id>>, result)
    /\ origin' = IF result.exc = "none" /\ result.ret
                  THEN DictDel(origin, str(hotel_id))
                  ELSE origin

\* Sequences of create_customer, create_hotel, create_reservation and
\* cancel_reservation alone.
NextConserve ==
    \/ \E i \in Ids, n \in OneText, l \in OneText, r \in RoomArgs :
          tracked_create_hotel(i, n, l, r)
    \/ \E i \in Ids, n \in OneText, e \in OneText : create_customer(i, n, e)
    \/ \E r \in Ids, c \in Ids, h \in Ids : create_reservation(r, c, h)
    \/ \E r \in Ids : cancel_reservation(r)
    \/ Return

SpecConserve == Init /\ [][NextConserve]_vars

\* Every operation but modify_hotel, reserve_room and cancel_room.
NextNoDirect ==
    \/ \E i \in Ids, n \in OneText, l \in OneText, r \in RoomArgs :
          tracked_create_hotel(i, n, l, r)
    \/ \E i \in Ids : tracked_delete_hotel(i)
    \/ \E i \in Ids : display_hotel(i)
    \/ \E i \in Ids, n \in OneText, e \in OneText : create_customer(i, n, e)
    \/ \E i \in Ids : delete_customer(i)
    \/ \E i \in Ids : display_customer(i)
    \/ \E i \in Ids, n \in Optional(OneText), e \in Optional(OneText) :
          modify_customer(i, n, e)
    \/ \E r \in Ids, c \in Ids, h \in Ids : create_reservation(r, c, h)
    \/ \E r \in Ids : cancel_reservation(r)
    \/ Return

SpecNoDirect == Init /\ [][NextNoDirect]_vars

\* Room-count arguments of any type: integers, a string and None (nothing in
\* create_hotel or modify_hotel looks at the type; modify_hotel takes None as
\* "not supplied").
AnyRoomArgs == RoomArgs \cup {PyStr("5"), PyNone}

\* Every operation, with room-count arguments of any type.
NextAnyArgs ==
    \/ \E i \in Ids, n \in OneText, l \in OneText, r \in AnyRoomArgs :
          create_hotel(i, n, l, r)
    \/ \E i \in Ids : delete_hotel(i)
    \/ \E i \in Ids : display_hotel(i)
    \/ \E i \in Ids, n \in Optional(OneText), l \in Optional(OneText),
          r \in AnyRoomArgs : modify_hotel(i, n, l, r)
    \/ \E i \in Ids : reserve_room(i)
    \/ \E i \in Ids : cancel_room(i)
    \/ \E i \in Ids, n \in OneText, e \in OneText : create_customer(i, n, e)
    \/ \E i \in Ids : delete_customer(i)
    \/ \E i \in Ids : display_customer(i)
    \/ \E i \in Ids, n \in Optional(OneText), e \in Optional(OneText) :
          modify_customer(i, n, e)
    \/ \E r \in Ids, c \in Ids, h \in Ids : create_reservation(r, c, h)
    \/ \E r \in Ids : cancel_reservation(r)
    \/ Return

SpecAnyArgs == Init /\ [][NextAnyArgs]_vars

\* Every operation, started on files each of which is absent or was left
\* with unreadable content by something other than this program (as the
\* tests' TestErrorHandling.setUp does to hotels.json).
InitCorrupt ==
    /\ files \in [FileNames -> {AbsentFile, GarbageFile, UndecodableFile}]
    /\ pc = "ready"
    /\ call = NoCall
    /\ ret = PyNone
    /\ exc = "none"
    /\ pre = files
    /\ origin = EmptyDict
    /\ proc = [p \in Procs |-> IdleProc]

SpecCorrupt == InitCorrupt /\ [][Next]_vars

(***************************************************************************)
(* create_reservation run as a process, one load or save of a store at a   *)
(* time.  The positions are the source lines of the next store access.     *)
(* The files of these specifications are absent or hold JSON dictionaries  *)
(* with integer room counts, so no step raises.                            *)
(***************************************************************************)
Running(p) == proc[p].pc \notin {"idle", "done"}

\* Mutant: reserve_room works on the dictionary create_reservation loaded.
reserve_room_load_Stale(fs, self) == self.hotel_data

\* line 100: the hotel dictionary reserve_room works on.
reserve_room_load(fs, self) == load_data(fs, Hotel_FILE_NAME)

\* Mutant: a hotel with no room left still passes.
reserve_room_has_room_AtLeastZero(data, k) == k \in DOMAIN data /\ data[k].rooms.v >= 0

\* lines 101-102: the hotel is stored and has a room left.
reserve_room_has_room(data, k) == k \in DOMAIN data /\ data[k].rooms.v > 0

Local(p, new) ==
    /\ pc = "ready"
    /\ proc' = [proc EXCEPT ![p] = new]
    /\ UNCHANGED <<pc, call, ret, exc, pre, origin>>

\* The call itself; a call made while another is running overlaps it.
cr_call(p, reservation_id, customer_id, hotel_id) ==
    /\ pc = "ready"
    /\ proc[p].pc = "idle"
    /\ proc' = [q \in Procs |->
                  IF q = p
                  THEN [proc[p] EXCEPT !.pc = "182",
                                       !.reservation_id = reservation_id,
                                       !.customer_id = customer_id,
                                       !.hotel_id = hotel_id,
                                       !.concurrent = \E o \in Procs \ {p} : Running(o)]
                  ELSE IF Running(q) THEN [proc[q] EXCEPT !.concurrent = TRUE]
                  ELSE proc[q]]
    /\ UNCHANGED <<files, pc, call, ret, exc, pre, origin>>

\* line 182
cr_load_customers(p) ==
    /\ proc[p].pc = "182"
    /\ Local(p, [proc[p] EXCEPT !.pc = "183",
                                !.customer_data = load_data(files, Customer_FILE_NAME)])
    /\ UNCHANGED files

\* line 183
cr_load_hotels(p) ==
    /\ proc[p].pc = "183"
    /\ Local(p, [proc[p] EXCEPT !.pc = "184",
                                !.hotel_data = load_data(files, Hotel_FILE_NAME)])
    /\ UNCHANGED files

\* line 184, and the checks of lines 186-194 on what was loaded
cr_load_reservations(p) ==
    /\ proc[p].pc = "184"
    /\ LET self == proc[p]
           res_data == load_data(files, Reservation_FILE_NAME)
       IN IF \/ str(self.reservation_id) \in DOMAIN res_data
             \/ str(self.customer_id) \notin DOMAIN self.customer_data
             \/ str(self.hotel_id) \notin DOMAIN self.hotel_data
          THEN Local(p, [self EXCEPT !.pc = "done", !.res_data = res_data,
                                     !.ret = FALSE])
          ELSE Local(p, [self EXCEPT !.pc = "100", !.res_data = res_data])
    /\ UNCHANGED files

\* lines 100-103 of reserve_room, and its False returned through line 201
rr_load(p) ==
    /\ proc[p].pc = "100"
    /\ LET self == proc[p]
           data == reserve_room_load(files, self)
           k == str(self.hotel_id)
       IN IF reserve_room_has_room(data, k)
          THEN Local(p, [self EXCEPT !.pc = "104",
                                     !.at_read = load_data(files, Hotel_FILE_NAME),
                                     !.data = [data EXCEPT ![k].rooms = PyInt(@.v - 1)]])
          ELSE Local(p, [self EXCEPT !.pc = "done",
                                     !.at_read = load_data(files, Hotel_FILE_NAME),
                                     !.data = data,
                                     !.ret = FALSE])
    /\ UNCHANGED files

\* lines 104-105 of reserve_room
rr_save(p) ==
    /\ proc[p].pc = "104"
    /\ files' = save_data(files, Hotel_FILE_NAME, proc[p].data)
    /\ Local(p, [proc[p] EXCEPT !.pc = "199", !.wrote_hotels = TRUE])

\* lines 195-200
cr_save(p) ==
    /\ proc[p].pc = "199"
    /\ LET self == proc[p] IN
       /\ files' = save_data(files, Reservation_FILE_NAME,
                             DictSet(self.res_data, str(self.reservation_id),
                                     [customer_id |-> PyStr(str(self.customer_id)),
                                      hotel_id |-> PyStr(str(self.hotel_id))]))
       /\ Local(p, [self EXCEPT !.pc = "done", !.wrote_res = TRUE, !.ret = TRUE,
                                !.saved = 1 + Cardinality({q \in Procs : proc[q].saved > 0})])

\* A whole method run by another process between two steps.
Other(result) ==
    /\ pc = "ready"
    /\ result.exc = "none"
    /\ result.fs # files
    /\ WithinBounds(result.fs)
    /\ files' = result.fs
    /\ UNCHANGED <<pc, call, ret, exc, pre, origin, proc>>

other_create_hotel(hotel_id, name, location, rooms) ==
    Other(Hotel_create_hotel(files, hotel_id, name, location, rooms))

other_delete_hotel(hotel_id) == Other(Hotel_delete_hotel(files, hotel_id))

other_modify_hotel(hotel_id, name, location, rooms) ==
    Other(Hotel_modify_hotel(files, hotel_id, name, location, rooms))

other_reserve_room(hotel_id) == Other(Hotel_reserve_room(files, hotel_id))

other_cancel_room(hotel_id) == Other(Hotel_cancel_room(files, hotel_id))

\* The stores the processes start from: what create_hotel, create_customer
\* and create_reservation leave, or no file.
HotelStores ==
    {AbsentFile} \cup
    {JsonFile(DictSet(EmptyDict, "1",
                      [name |-> PyStr("A"), location |-> PyStr("A"), rooms |-> r])) :
        r \in NonNegRoomArgs}

CustomerStores ==
    {AbsentFile,
     JsonFile(DictSet(EmptyDict, "1", [name |-> PyStr("A"), email |-> PyStr("A")]))}

ReservationStores ==
    {AbsentFile,
     JsonFile(DictSet(EmptyDict, "1",
                      [customer_id |-> PyStr("1"), hotel_id |-> PyStr("1")]))}

InitStores ==
    /\ files \in {[f \in FileNames |->
                     IF f = Hotel_FILE_NAME THEN h
                     ELSE IF f = Customer_FILE_NAME THEN c ELSE r] :
                  h \in HotelStores, c \in CustomerStores, r \in ReservationStores}
    /\ pc = "ready"
    /\ call = NoCall
    /\ ret = PyNone
    /\ exc = "none"
    /\ pre = files
    /\ origin = EmptyDict
    /\ proc = [p \in Procs |-> IdleProc]

\* One create_reservation, with other processes' hotel operations between
\* its steps.
NextInterfered ==
    \/ \E r \in Ids, c \in IdsOfOneKey, h \in IdsOfOneKey : cr_call("p", r, c, h)
    \/ cr_load_customers("p")
    \/ cr_load_hotels("p")
    \/ cr_load_reservations("p")
    \/ rr_load("p")
    \/ rr_save("p")
    \/ cr_save("p")
    \/ \E i \in IdsOfOneKey, r \in NonNegRoomArgs :
          other_create_hotel(i, PyStr("A"), PyStr("A"), r)
    \/ \E i \in IdsOfOneKey : other_delete_hotel(i)
    \/ \E i \in IdsOfOneKey, r \in NonNegRoomArgs :
          other_modify_hotel(i, PyNone, PyNone, r)
    \/ \E i \in IdsOfOneKey : other_reserve_room(i)
    \/ \E i \in IdsOfOneKey : other_cancel_room(i)

SpecInterfered == InitStores /\ [][NextInterfered]_vars

\* Two create_reservation calls with distinct reservation ids for the same
\* hotel, and nothing else.
NextRace ==
    \/ \E p \in Procs, r \in Ids, c \in IdsOfOneKey, h \in IdsOfOneKey :
          /\ \A q \in Procs \ {p} :
                proc[q].pc # "idle" =>
                    /\ str(r) # str(proc[q].reservation_id)
                    /\ str(h) = str(proc[q].hotel_id)
          /\ cr_call(p, r, c, h)
    \/ \E p \in Procs : cr_load_customers(p)
    \/ \E p \in Procs : cr_load_hotels(p)
    \/ \E p \in Procs : cr_load_reservations(p)
    \/ \E p \in Procs : rr_load(p)
    \/ \E p \in Procs : rr_save(p)
    \/ \E p \in Procs : cr_save(p)

SpecRace == InitStores /\ [][NextRace]_vars

(***************************************************************************)
(* The stores as a caller reads them, now and before the call that has     *)
(* just returned.                                                          *)
(***************************************************************************)
hotels == load_data(files, Hotel_FILE_NAME)
customers == load_data(files, Customer_FILE_NAME)
reservations == load_data(files, Reservation_FILE_NAME)
pre_hotels == load_data(pre, Hotel_FILE_NAME)
pre_customers == load_data(pre, Customer_FILE_NAME)
pre_reservations == load_data(pre, Reservation_FILE_NAME)

Called(name) == pc = "returned" /\ call.name = name
Arg(i) == call.args[i]

\* Dictionary d2 is d1 with the one entry k added or replaced by val.
SameExcept(d1, d2, k, val) ==
    /\ DOMAIN d2 = DOMAIN d1 \cup {k}
    /\ d2[k] = val
    /\ \A x \in DOMAIN d1 \ {k} : d2[x] = d1[x]

\* Dictionary d2 is d1 without the entry k.
SameWithout(d1, d2, k) ==
    /\ DOMAIN d2 = DOMAIN d1 \ {k}
    /\ \A x \in DOMAIN d2 : d2[x] = d1[x]

\* A hotel record with the room count changed by delta and nothing else.
RoomsShifted(rec, delta) ==
    [name |-> rec.name, location |-> rec.location, rooms |-> PyInt(rec.rooms.v + delta)]

(***************************************************************************)
(* C1: whenever create_reservation(r, c, h) returns True, r was not in the *)
(* reservation store, c was in the customer store and h in the hotel store *)
(* with rooms > 0; the room count of h is one less than before, the        *)
(* reservation store has gained exactly r -> {customer_id: c, hotel_id: h},*)
(* and every other hotel, every other reservation and the customer file    *)
(* are unchanged.                                                          *)
(***************************************************************************)
C1_CreateReservationSuccess ==
    (Called("create_reservation") /\ ret = TRUE) =>
        LET r == str(Arg(1))
            c == str(Arg(2))
            h == str(Arg(3))
        IN /\ r \notin DOMAIN pre_reservations
           /\ c \in DOMAIN pre_customers
           /\ h \in DOMAIN pre_hotels
           /\ pre_hotels[h].rooms.v > 0
           /\ SameExcept(pre_hotels, hotels, h, RoomsShifted(pre_hotels[h], -1))
           /\ SameExcept(pre_reservations, reservations, r,
                         [customer_id |-> PyStr(c), hotel_id |-> PyStr(h)])
           /\ files[Customer_FILE_NAME] = pre[Customer_FILE_NAME]

\* A reservation was created while another hotel and another reservation exist.
C1_Witness ==
    /\ Called("create_reservation")
    /\ ret = TRUE
    /\ Cardinality(DOMAIN pre_hotels) = 2
    /\ Cardinality(DOMAIN pre_reservations) = 1

(***************************************************************************)
(* C2: create_reservation with an unused reservation id, an existing       *)
(* customer and an existing hotel whose room count is 0 returns False,     *)
(* leaves that hotel's room count at 0 and adds no reservation record.     *)
(***************************************************************************)
C2_NoRooms ==
    (/\ Called("create_reservation")
     /\ str(Arg(1)) \notin DOMAIN pre_reservations
     /\ str(Arg(2)) \in DOMAIN pre_customers
     /\ str(Arg(3)) \in DOMAIN pre_hotels
     /\ pre_hotels[str(Arg(3))].rooms.v = 0) =>
        /\ ret = FALSE
        /\ str(Arg(3)) \in DOMAIN hotels
        /\ hotels[str(Arg(3))].rooms.v = 0
        /\ reservations = pre_reservations

C2_Witness ==
    /\ Called("create_reservation")
    /\ str(Arg(1)) \notin DOMAIN pre_reservations
    /\ str(Arg(2)) \in DOMAIN pre_customers
    /\ str(Arg(3)) \in DOMAIN pre_hotels
    /\ pre_hotels[str(Arg(3))].rooms.v = 0
    /\ ret = FALSE

(***************************************************************************)
(* C3: create_reservation with a customer id absent from the customer      *)
(* store, or a hotel id absent from the hotel store, returns False and     *)
(* leaves the three files as they were: no room is decremented.            *)
(***************************************************************************)
C3_InvalidReference ==
    (/\ Called("create_reservation")
     /\ \/ str(Arg(2)) \notin DOMAIN pre_customers
        \/ str(Arg(3)) \notin DOMAIN pre_hotels) =>
        /\ ret = FALSE
        /\ files = pre

\* The customer is unknown while the hotel exists and has a free room, and
\* the reservation id is unused: only the order of the checks saves the room.
C3_Witness ==
    /\ Called("create_reservation")
    /\ str(Arg(1)) \notin DOMAIN pre_reservations
    /\ str(Arg(2)) \notin DOMAIN pre_customers
    /\ str(Arg(3)) \in DOMAIN pre_hotels
    /\ pre_hotels[str(Arg(3))].rooms.v > 0
    /\ ret = FALSE

(***************************************************************************)
(* C4: cancel_reservation(r) for a stored reservation r whose hotel is in  *)
(* the hotel store returns True, makes that hotel's room count one more    *)
(* than before, removes r, and leaves every other hotel, reservation and   *)
(* the customer file unchanged; and from every state between calls, a      *)
(* create_reservation that succeeds followed directly by cancel_reservation*)
(* of the same id gives back the hotel store as it was before the two.     *)
(***************************************************************************)
C4_CancelReservationSuccess ==
    /\ (/\ Called("cancel_reservation")
        /\ str(Arg(1)) \in DOMAIN pre_reservations
        /\ pre_reservations[str(Arg(1))].hotel_id.s \in DOMAIN pre_hotels) =>
           LET r == str(Arg(1))
               h == pre_reservations[r].hotel_id.s
           IN /\ ret = TRUE
              /\ SameExcept(pre_hotels, hotels, h, RoomsShifted(pre_hotels[h], 1))
              /\ SameWithout(pre_reservations, reservations, r)
              /\ files[Customer_FILE_NAME] = pre[Customer_FILE_NAME]
    /\ pc = "ready" =>
           \A r \in Ids, c \in Ids, h \in Ids :
               LET created == Reservation_create_reservation(files, r, c, h)
                   cancelled == Reservation_cancel_reservation(created.fs, r)
               IN created.ret =>
                     /\ cancelled.ret = TRUE
                     /\ load_data(created.fs, Hotel_FILE_NAME)[str(h)].rooms.v
                           = hotels[str(h)].rooms.v - 1
                     /\ load_data(cancelled.fs, Hotel_FILE_NAME) = hotels

\* A reservation was cancelled while another hotel and another reservation exist.
C4_Witness ==
    /\ Called("cancel_reservation")
    /\ ret = TRUE
    /\ str(Arg(1)) \in DOMAIN pre_reservations
    /\ pre_reservations[str(Arg(1))].hotel_id.s \in DOMAIN pre_hotels
    /\ Cardinality(DOMAIN pre_hotels) = 2
    /\ Cardinality(DOMAIN pre_reservations) = 2

(***************************************************************************)
(* C5: a reservation id goes nonexistent -> active -> nonexistent.  After  *)
(* cancel_reservation(r) returns True, r is not in the reservation store;  *)
(* cancel_reservation of an id that is not in the store (a second cancel of*)
(* r, or an id never created) returns False and leaves the three files as *)
(* they were; and after a cancel r can be created again by                *)
(* create_reservation for any stored customer and any stored hotel with a  *)
(* free room.                                                              *)
(***************************************************************************)
C5_ReservationLifecycle ==
    /\ (Called("cancel_reservation") /\ str(Arg(1)) \notin DOMAIN pre_reservations) =>
           (ret = FALSE /\ files = pre)
    /\ (Called("cancel_reservation") /\ ret = TRUE) =>
           /\ str(Arg(1)) \in DOMAIN pre_reservations
           /\ str(Arg(1)) \notin DOMAIN reservations
           /\ Reservation_cancel_reservation(files, Arg(1)) = Result(files, FALSE)
           /\ \A c \in Ids, h \in Ids :
                 (/\ str(c) \in DOMAIN customers
                  /\ str(h) \in DOMAIN hotels
                  /\ hotels[str(h)].rooms.v > 0) =>
                     LET again == Reservation_create_reservation(files, Arg(1), c, h)
                     IN /\ again.ret = TRUE
                        /\ str(Arg(1)) \in DOMAIN load_data(again.fs, Reservation_FILE_NAME)

\* A reservation was cancelled and its customer and a hotel with a free room
\* are there for it to be created again.
C5_Witness ==
    /\ Called("cancel_reservation")
    /\ ret = TRUE
    /\ \E c \in Ids, h \in Ids :
          /\ str(c) \in DOMAIN customers
          /\ str(h) \in DOMAIN hotels
          /\ hotels[str(h)].rooms.v > 0

(***************************************************************************)
(* C6: every stored hotel record has a room count >= 0, and a call that    *)
(* decrements a room count (reserve_room, create_reservation) does so only *)
(* when the count was > 0.                                                 *)
(***************************************************************************)
C6_RoomsNeverNegative ==
    /\ \A k \in DOMAIN hotels : hotels[k].rooms.v >= 0
    /\ (Called("reserve_room") /\ ret = TRUE) =>
           pre_hotels[str(Arg(1))].rooms.v > 0
    /\ (Called("create_reservation") /\ ret = TRUE) =>
           pre_hotels[str(Arg(3))].rooms.v > 0

(***************************************************************************)
(* C7, as claimed: a reservation's creation decrements the room count of   *)
(* its hotel exactly once, and its cancellation re-increments the room     *)
(* count of that same hotel exactly once.                                  *)
(***************************************************************************)
C7_AsClaimed ==
    /\ (Called("create_reservation") /\ ret = TRUE) =>
           LET h == str(Arg(3))
           IN /\ h \in DOMAIN pre_hotels
              /\ SameExcept(pre_hotels, hotels, h, RoomsShifted(pre_hotels[h], -1))
    /\ (Called("cancel_reservation") /\ ret = TRUE) =>
           LET h == pre_reservations[str(Arg(1))].hotel_id.s
           IN /\ h \in DOMAIN pre_hotels
              /\ h \in DOMAIN hotels
              /\ hotels[h].rooms.v = pre_hotels[h].rooms.v + 1

(***************************************************************************)
(* C7, amended: a reservation's creation decrements the room count of its  *)
(* hotel exactly once; its cancellation re-increments the room count of the*)
(* hotel stored under that id exactly once when there is one, and leaves   *)
(* the hotel file untouched when the hotel has been deleted.               *)
(***************************************************************************)
C7_OneDecrementOneIncrement ==
    /\ (Called("create_reservation") /\ ret = TRUE) =>
           LET h == str(Arg(3))
           IN /\ h \in DOMAIN pre_hotels
              /\ SameExcept(pre_hotels, hotels, h, RoomsShifted(pre_hotels[h], -1))
    /\ (Called("cancel_reservation") /\ ret = TRUE) =>
           LET h == pre_reservations[str(Arg(1))].hotel_id.s
           IN IF h \in DOMAIN pre_hotels
              THEN SameExcept(pre_hotels, hotels, h, RoomsShifted(pre_hotels[h], 1))
              ELSE files[Hotel_FILE_NAME] = pre[Hotel_FILE_NAME]

\* A reservation was cancelled after its hotel had been deleted, while
\* another hotel is stored.
C7_Witness ==
    /\ Called("cancel_reservation")
    /\ ret = TRUE
    /\ pre_reservations[str(Arg(1))].hotel_id.s \notin DOMAIN pre_hotels
    /\ DOMAIN pre_hotels # {}

(***************************************************************************)
(* C8: for hotels, customers and reservations, a create whose identifier   *)
(* coerces to a key already in the store returns False and leaves the three*)
(* files as they were (the first record is kept, no room is decremented);  *)
(* a create_hotel or create_customer on a key not in the store returns True*)
(* and stores the given fields; and from every state between calls, a      *)
(* create that succeeds followed by a create on an identifier of the same  *)
(* key, whatever its other arguments, returns False and changes nothing.   *)
(***************************************************************************)
C8_DuplicateCreate ==
    /\ (Called("create_hotel") /\ str(Arg(1)) \in DOMAIN pre_hotels) =>
           (ret = FALSE /\ files = pre)
    /\ (Called("create_customer") /\ str(Arg(1)) \in DOMAIN pre_customers) =>
           (ret = FALSE /\ files = pre)
    /\ (Called("create_reservation") /\ str(Arg(1)) \in DOMAIN pre_reservations) =>
           (ret = FALSE /\ files = pre)
    /\ (Called("create_hotel") /\ str(Arg(1)) \notin DOMAIN pre_hotels) =>
           /\ ret = TRUE
           /\ SameExcept(pre_hotels, hotels, str(Arg(1)),
                         [name |-> Arg(2), location |-> Arg(3), rooms |-> Arg(4)])
    /\ (Called("create_customer") /\ str(Arg(1)) \notin DOMAIN pre_customers) =>
           /\ ret = TRUE
           /\ SameExcept(pre_customers, customers, str(Arg(1)),
                         [name |-> Arg(2), email |-> Arg(3)])
    /\ pc = "ready" =>
           \A i \in Ids, j \in Ids :
               str(i) = str(j) =>
                   /\ \A n1 \in Texts, l1 \in Texts, r1 \in RoomArgs,
                         n2 \in Texts, l2 \in Texts, r2 \in RoomArgs :
                         LET first == Hotel_create_hotel(files, i, n1, l1, r1)
                         IN first.ret =>
                               Hotel_create_hotel(first.fs, j, n2, l2, r2)
                                   = Result(first.fs, FALSE)
                   /\ \A n1 \in Texts, e1 \in Texts, n2 \in Texts, e2 \in Texts :
                         LET first == Customer_create_customer(files, i, n1, e1)
                         IN first.ret =>
                               Customer_create_customer(first.fs, j, n2, e2)
                                   = Result(first.fs, FALSE)
                   /\ \A c1 \in Ids, h1 \in Ids, c2 \in Ids, h2 \in Ids :
                         LET first == Reservation_create_reservation(files, i, c1, h1)
                         IN first.ret =>
                               Reservation_create_reservation(first.fs, j, c2, h2)
                                   = Result(first.fs, FALSE)

\* A reservation is created again under another identifier of the same key
\* while its customer exists and its hotel still has a free room.
C8_Witness ==
    /\ Called("create_reservation")
    /\ ret = FALSE
    /\ str(Arg(1)) \in DOMAIN pre_reservations
    /\ str(Arg(2)) \in DOMAIN pre_customers
    /\ str(Arg(3)) \in DOMAIN pre_hotels
    /\ pre_hotels[str(Arg(3))].rooms.v > 0

(***************************************************************************)
(* C9: delete_hotel and delete_customer on an identifier whose key is not  *)
(* in the store return False and leave the three files as they were; on a  *)
(* key in the store they return True, remove exactly that record and leave *)
(* the other two files as they were.                                       *)
(***************************************************************************)
C9_Delete ==
    /\ Called("delete_hotel") =>
           IF str(Arg(1)) \in DOMAIN pre_hotels
           THEN /\ ret = TRUE
                /\ SameWithout(pre_hotels, hotels, str(Arg(1)))
                /\ files[Customer_FILE_NAME] = pre[Customer_FILE_NAME]
                /\ files[Reservation_FILE_NAME] = pre[Reservation_FILE_NAME]
           ELSE ret = FALSE /\ files = pre
    /\ Called("delete_customer") =>
           IF str(Arg(1)) \in DOMAIN pre_customers
           THEN /\ ret = TRUE
                /\ SameWithout(pre_customers, customers, str(Arg(1)))
                /\ files[Hotel_FILE_NAME] = pre[Hotel_FILE_NAME]
                /\ files[Reservation_FILE_NAME] = pre[Reservation_FILE_NAME]
           ELSE ret = FALSE /\ files = pre

\* One of two stored hotels was deleted.
C9_Witness ==
    /\ Called("delete_hotel")
    /\ ret = TRUE
    /\ Cardinality(DOMAIN pre_hotels) = 2
    /\ Cardinality(DOMAIN hotels) = 1

(***************************************************************************)
(* C10: modify_hotel and modify_customer on an identifier whose key is not *)
(* in the store return False and leave the files as they were; on a key in *)
(* the store they return True, give each supplied field (an argument other *)
(* than None) the supplied value, and leave every field not supplied and   *)
(* every other record at its prior value.                                  *)
(***************************************************************************)
Supplied(arg, prior) == IF arg.t = "None" THEN prior ELSE arg

C10_Modify ==
    /\ Called("modify_hotel") =>
           LET k == str(Arg(1)) IN
           IF k \in DOMAIN pre_hotels
           THEN /\ ret = TRUE
                /\ SameExcept(pre_hotels, hotels, k,
                              [name |-> Supplied(Arg(2), pre_hotels[k].name),
                               location |-> Supplied(Arg(3), pre_hotels[k].location),
                               rooms |-> Supplied(Arg(4), pre_hotels[k].rooms)])
                /\ files[Customer_FILE_NAME] = pre[Customer_FILE_NAME]
           ELSE ret = FALSE /\ files = pre
    /\ Called("modify_customer") =>
           LET k == str(Arg(1)) IN
           IF k \in DOMAIN pre_customers
           THEN /\ ret = TRUE
                /\ SameExcept(pre_customers, customers, k,
                              [name |-> Supplied(Arg(2), pre_customers[k].name),
                               email |-> Supplied(Arg(3), pre_customers[k].email)])
                /\ files[Hotel_FILE_NAME] = pre[Hotel_FILE_NAME]
           ELSE ret = FALSE /\ files = pre

\* Of two stored hotels one had its location alone changed.
C10_Witness ==
    /\ Called("modify_hotel")
    /\ ret = TRUE
    /\ Cardinality(DOMAIN pre_hotels) = 2
    /\ Arg(2) = PyNone
    /\ Arg(4) = PyNone
    /\ Arg(3) # PyNone
    /\ Arg(3) # pre_hotels[str(Arg(1))].location
    /\ hotels[str(Arg(1))].name = pre_hotels[str(Arg(1))].name

(***************************************************************************)
(* C11: load_data on a file that is absent or whose content is malformed   *)
(* gives the empty dictionary and does not raise; so a method called while *)
(* the file it reads is in such a state does what it does on an empty      *)
(* store: create_hotel and create_customer return True and the saved store *)
(* holds the new record alone; delete, modify, display, reserve_room,      *)
(* cancel_room and cancel_reservation report not-found and write nothing.  *)
(* BadKinds are the contents counted as malformed.                         *)
(***************************************************************************)
Unreadable(fs, filename, BadKinds) == fs[filename].kind \in BadKinds

MalformedAsEmpty(BadKinds) ==
    /\ (pc = "returned" /\ call.name \in {"create_hotel", "delete_hotel", "display_hotel",
                                          "modify_hotel", "reserve_room", "cancel_room"}
        /\ Unreadable(pre, Hotel_FILE_NAME, BadKinds)) =>
           /\ exc = "none"
           /\ IF call.name = "create_hotel"
              THEN /\ ret = TRUE
                   /\ DOMAIN hotels = {str(Arg(1))}
                   /\ hotels[str(Arg(1))]
                         = [name |-> Arg(2), location |-> Arg(3), rooms |-> Arg(4)]
              ELSE /\ files = pre
                   /\ IF call.name = "display_hotel" THEN ret = PyNone ELSE ret = FALSE
    /\ (pc = "returned" /\ call.name \in {"create_customer", "delete_customer",
                                          "display_customer", "modify_customer"}
        /\ Unreadable(pre, Customer_FILE_NAME, BadKinds)) =>
           /\ exc = "none"
           /\ IF call.name = "create_customer"
              THEN /\ ret = TRUE
                   /\ DOMAIN customers = {str(Arg(1))}
                   /\ customers[str(Arg(1))] = [name |-> Arg(2), email |-> Arg(3)]
              ELSE /\ files = pre
                   /\ IF call.name = "display_customer" THEN ret = PyNone ELSE ret = FALSE
    /\ (Called("cancel_reservation")
        /\ Unreadable(pre, Reservation_FILE_NAME, BadKinds)) =>
           (exc = "none" /\ ret = FALSE /\ files = pre)

C11_MalformedAsEmpty == MalformedAsEmpty({"absent", "garbage", "undecodable"})

\* What the code does give: the same for a file that is absent or holds text
\* json.load rejects with JSONDecodeError.
C11_JsonRejectedAsEmpty == MalformedAsEmpty({"absent", "garbage"})

(***************************************************************************)
(* C12: every call of a public method of Hotel, Customer and Reservation,  *)
(* in every reachable state and for every argument value, returns a value  *)
(* (a boolean, or a record or None for display): none ends in an exception.*)
(***************************************************************************)
C12_NoRaisedFault == pc = "returned" => exc = "none"

(***************************************************************************)
(* C13: cancel_reservation(r) for a stored reservation whose hotel is no   *)
(* longer in the hotel store returns True and removes r; the nested        *)
(* cancel_room writes nothing, so the hotel file is as it was (no hotel    *)
(* record is created or incremented), and so is the customer file.        *)
(***************************************************************************)
C13_CancelAfterHotelDeleted ==
    (/\ Called("cancel_reservation")
     /\ str(Arg(1)) \in DOMAIN pre_reservations
     /\ pre_reservations[str(Arg(1))].hotel_id.s \notin DOMAIN pre_hotels) =>
        /\ exc = "none"
        /\ ret = TRUE
        /\ SameWithout(pre_reservations, reservations, str(Arg(1)))
        /\ files[Hotel_FILE_NAME] = pre[Hotel_FILE_NAME]
        /\ files[Customer_FILE_NAME] = pre[Customer_FILE_NAME]

\* One of two stored reservations was cancelled after its hotel was deleted.
C13_Witness ==
    /\ Called("cancel_reservation")
    /\ str(Arg(1)) \in DOMAIN pre_reservations
    /\ pre_reservations[str(Arg(1))].hotel_id.s \notin DOMAIN pre_hotels
    /\ Cardinality(DOMAIN pre_reservations) = 2
    /\ Cardinality(DOMAIN reservations) = 1

(***************************************************************************)
(* C14: a Hotel method leaves the customer and reservation files as they   *)
(* were, and a Customer method leaves the hotel and reservation files as   *)
(* they were; delete_hotel and delete_customer return True whenever the key*)
(* is in their store, whatever reservations refer to it.  (That states with*)
(* reservations pointing at no hotel or customer are reachable is the      *)
(* witness.)                                                               *)
(***************************************************************************)
HotelMethods == {"create_hotel", "delete_hotel", "display_hotel", "modify_hotel",
                 "reserve_room", "cancel_room"}
CustomerMethods == {"create_customer", "delete_customer", "display_customer",
                    "modify_customer"}

C14_RegistriesOwnOneStore ==
    /\ (pc = "returned" /\ call.name \in HotelMethods) =>
           /\ files[Customer_FILE_NAME] = pre[Customer_FILE_NAME]
           /\ files[Reservation_FILE_NAME] = pre[Reservation_FILE_NAME]
    /\ (pc = "returned" /\ call.name \in CustomerMethods) =>
           /\ files[Hotel_FILE_NAME] = pre[Hotel_FILE_NAME]
           /\ files[Reservation_FILE_NAME] = pre[Reservation_FILE_NAME]
    /\ (Called("delete_hotel") /\ str(Arg(1)) \in DOMAIN pre_hotels) =>
           (ret = TRUE /\ str(Arg(1)) \notin DOMAIN hotels)
    /\ (Called("delete_customer") /\ str(Arg(1)) \in DOMAIN pre_customers) =>
           (ret = TRUE /\ str(Arg(1)) \notin DOMAIN customers)

\* A customer was deleted and left a reservation whose hotel had already
\* been deleted: the record points at no customer and at no hotel.
C14_Witness ==
    /\ Called("delete_customer")
    /\ ret = TRUE
    /\ \E r \in DOMAIN reservations :
          /\ reservations[r].customer_id.s = str(Arg(1))
          /\ reservations[r].customer_id.s \notin DOMAIN customers
          /\ reservations[r].hotel_id.s \notin DOMAIN hotels

(***************************************************************************)
(* C15: display_hotel and display_customer return the stored record when   *)
(* the key is in the store and None when it is not, and leave the three    *)
(* files as they were.                                                     *)
(***************************************************************************)
C15_Display ==
    /\ Called("display_hotel") =>
           /\ exc = "none"
           /\ files = pre
           /\ ret = IF str(Arg(1)) \in DOMAIN pre_hotels
                    THEN pre_hotels[str(Arg(1))] ELSE PyNone
    /\ Called("display_customer") =>
           /\ exc = "none"
           /\ files = pre
           /\ ret = IF str(Arg(1)) \in DOMAIN pre_customers
                    THEN pre_customers[str(Arg(1))] ELSE PyNone

\* A hotel created under the string "1" is displayed under the integer 1.
C15_Witness ==
    /\ Called("display_hotel")
    /\ Arg(1) = PyInt(1)
    /\ "1" \in DOMAIN pre_hotels
    /\ ret = pre_hotels["1"]
    /\ ret.name = PyStr("B")

(***************************************************************************)
(* C16: reserve_room(id) returns False and leaves the hotel file as it was *)
(* exactly when the key is not in the store or the hotel's room count is 0;*)
(* in every other case it returns True and decrements that room count by 1,*)
(* leaving name, location and the other hotels as they were.               *)
(***************************************************************************)
C16_ReserveRoom ==
    Called("reserve_room") =>
        LET k == str(Arg(1)) IN
        IF k \notin DOMAIN pre_hotels \/ pre_hotels[k].rooms.v = 0
        THEN ret = FALSE /\ files = pre
        ELSE /\ ret = TRUE
             /\ SameExcept(pre_hotels, hotels, k, RoomsShifted(pre_hotels[k], -1))

(***************************************************************************)
(* C17: in sequences of create_customer, create_hotel, create_reservation  *)
(* and cancel_reservation alone, for every stored hotel h created with a  *)
(* rooms value n >= 0, the room count of h plus the number of reservation  *)
(* records whose hotel_id is h equals n, and that number is at most n.     *)
(***************************************************************************)
ActiveFor(h) == Cardinality({r \in DOMAIN reservations : reservations[r].hotel_id.s = h})

C17_RoomsConserved ==
    \A h \in DOMAIN hotels :
        origin[h].rooms.v >= 0 =>
            /\ hotels[h].rooms.v + ActiveFor(h) = origin[h].rooms.v
            /\ ActiveFor(h) <= origin[h].rooms.v

\* A hotel created with one room or more is full, and a further
\* create_reservation for it has just been refused.
C17_Witness ==
    /\ Called("create_reservation")
    /\ ret = FALSE
    /\ str(Arg(1)) \notin DOMAIN pre_reservations
    /\ str(Arg(2)) \in DOMAIN customers
    /\ str(Arg(3)) \in DOMAIN hotels
    /\ origin[str(Arg(3))].rooms.v >= 1
    /\ ActiveFor(str(Arg(3))) = origin[str(Arg(3))].rooms.v

(***************************************************************************)
(* C18, as claimed: in sequences without modify_hotel, reserve_room and    *)
(* cancel_room, the room count of a stored hotel never exceeds the rooms   *)
(* value of the create_hotel call that stored the record.                  *)
(***************************************************************************)
C18_AsClaimed ==
    \A h \in DOMAIN hotels : hotels[h].rooms.v <= origin[h].rooms.v

(***************************************************************************)
(* C18, amended: the same, for the hotels stored by a create_hotel call    *)
(* made while no reservation referring to that hotel id was in the         *)
(* reservation file (a reservation left by an earlier delete_hotel of the  *)
(* id re-increments the new record when it is cancelled).                  *)
(***************************************************************************)
C18_RoomsAtMostCreated ==
    \A h \in DOMAIN hotels :
        ~origin[h].stale => hotels[h].rooms.v <= origin[h].rooms.v

\* A hotel id was deleted and created again with no reservation left on it,
\* and a reservation made on the new record has been cancelled: the count is
\* back at the created value.
C18_Witness ==
    /\ Called("cancel_reservation")
    /\ ret = TRUE
    /\ LET h == pre_reservations[str(Arg(1))].hotel_id.s
       IN /\ h \in DOMAIN hotels
          /\ ~origin[h].stale
          /\ origin[h].rooms.v >= 1
          /\ hotels[h].rooms.v = origin[h].rooms.v
          /\ \E r \in DOMAIN reservations : reservations[r].hotel_id.s \notin DOMAIN hotels

(***************************************************************************)
(* C19: create_reservation decides on the hotel dictionary that            *)
(* reserve_room loads, not on the one it loaded itself: when the hotel is  *)
(* absent from the file or has room count 0 at reserve_room's load, the    *)
(* call returns False and has written neither the hotel file nor the       *)
(* reservation file; and a call that returns True found the hotel with a   *)
(* room left at that load.                                                 *)
(***************************************************************************)
\* The call of p has made reserve_room's load.
SecondRead(p) ==
    \/ proc[p].pc \in {"104", "199"}
    \/ /\ proc[p].pc = "done"
       /\ str(proc[p].reservation_id) \notin DOMAIN proc[p].res_data
       /\ str(proc[p].customer_id) \in DOMAIN proc[p].customer_data
       /\ str(proc[p].hotel_id) \in DOMAIN proc[p].hotel_data

C19_SecondReadDecides ==
    \A p \in Procs :
        LET self == proc[p]
            k == str(self.hotel_id)
        IN /\ /\ SecondRead(p)
              /\ \/ k \notin DOMAIN self.at_read
                 \/ self.at_read[k].rooms.v = 0
              => /\ self.pc = "done"
                 /\ self.ret = FALSE
                 /\ ~self.wrote_hotels
                 /\ ~self.wrote_res
           /\ self.pc = "done" /\ self.ret = TRUE =>
                 /\ k \in DOMAIN self.at_read
                 /\ self.at_read[k].rooms.v > 0

\* The hotel had a room at create_reservation's own load and was deleted
\* before reserve_room's: the call has returned False and the hotel is still
\* deleted.
C19_Witness ==
    LET self == proc["p"]
        k == str(self.hotel_id)
    IN /\ SecondRead("p")
       /\ self.pc = "done"
       /\ self.hotel_data[k].rooms.v > 0
       /\ k \notin DOMAIN self.at_read
       /\ self.ret = FALSE
       /\ k \notin DOMAIN hotels

(***************************************************************************)
(* C20, as claimed: when both calls have returned, the number of them that *)
(* returned True is at most the hotel's room count before the calls, and   *)
(* every call that returned True has its record in the reservation file.   *)
(***************************************************************************)
BothDone == \A p \in Procs : proc[p].pc = "done"

ReturnedTrue == {p \in Procs : proc[p].pc = "done" /\ proc[p].ret = TRUE}

RoomsBefore(k) == IF k \in DOMAIN pre_hotels THEN pre_hotels[k].rooms.v ELSE 0

NoOverbookingNoLoss ==
    /\ \A p \in Procs : Cardinality(ReturnedTrue) <= RoomsBefore(str(proc[p].hotel_id))
    /\ \A p \in ReturnedTrue : str(proc[p].reservation_id) \in DOMAIN reservations

C20_AsClaimed == BothDone => NoOverbookingNoLoss

(***************************************************************************)
(* C20, amended: the claim holds when neither call was made while the      *)
(* other was running.  In every interleaving, a call returns True only if  *)
(* the hotel file held a room count above 0 at its reserve_room load, no   *)
(* room count falls below 0, and the call that saved the reservation file  *)
(* last has its record in it.                                              *)
(***************************************************************************)
C20_RaceBounded ==
    /\ BothDone /\ (\A p \in Procs : ~proc[p].concurrent) => NoOverbookingNoLoss
    /\ \A p \in ReturnedTrue :
          /\ str(proc[p].hotel_id) \in DOMAIN proc[p].at_read
          /\ proc[p].at_read[str(proc[p].hotel_id)].rooms.v > 0
    /\ \A k \in DOMAIN hotels : hotels[k].rooms.v >= 0
    /\ \A p \in Procs :
          /\ proc[p].saved > 0
          /\ \A q \in Procs : proc[q].saved <= proc[p].saved
          => str(proc[p].reservation_id) \in DOMAIN reservations

\* Two overlapping calls on a hotel with one room have both returned True;
\* the record of the one that saved last is stored, the other's is not.
C20_Witness ==
    /\ BothDone
    /\ ReturnedTrue = Procs
    /\ \A p \in Procs : proc[p].concurrent /\ RoomsBefore(str(proc[p].hotel_id)) = 1
    /\ \E p \in Procs, q \in Procs :
          /\ proc[p].saved > proc[q].saved
          /\ str(proc[p].reservation_id) \in DOMAIN reservations
          /\ str(proc[q].reservation_id) \notin DOMAIN reservations

====
